---------------------------- MODULE Spec2Model ----------------------------
(***************************************************************************)
(* Kushn: a directory hasher.  The library (src/src/lib.rs) offers         *)
(* calculate_file_hash, process_file and process_directory; the command    *)
(* line program (src/src/main.rs) has its own process_file and             *)
(* process_directory and writes the manifest.                              *)
(*                                                                         *)
(* Strings are sequences of one-character strings, so that glob matching,  *)
(* prefix stripping and separator replacement are computed character by    *)
(* character as the code does.  Paths follow the Unix conventions of       *)
(* std::path ("/" is the only separator).                                  *)
(*                                                                         *)
(* File and directory names are drawn from letters and the dot: no name    *)
(* holds a separator of either platform or a glob metacharacter.  read_dir *)
(* lists a directory in any order of its entries, chosen each time the     *)
(* directory is opened.  Symbolic links are not modelled.                  *)
(*                                                                         *)
(* SHA-256 is modelled as a collision-free digest: Sha256(c) is a term     *)
(* that wraps the content c.  serde_json::to_string_pretty is modelled as  *)
(* an injective encoding of the entry list, tagged "json", distinct from   *)
(* every plain byte content (the empty file included).                     *)
(***************************************************************************)
EXTENDS Naturals, Sequences, FiniteSets

VARIABLES
    prog,       \* the entry point the scenario calls
    fs,         \* the file system: absolute path -> node
    cwd,        \* env::current_dir()
    arg,        \* the path argument (directory_path or file_path)
    ignore,     \* the ignore strings
    outName,    \* the output file name (--name)
    pc,         \* position in the entry point
    dirPats,    \* directory_ignore_patterns
    filePats,   \* file_ignore_patterns
    todo,       \* what the WalkDir iterator has yet to yield
    results,    \* the Vec<FileHash> being built
    ret,        \* what the call returned
    visited,    \* the entries the iterator has yielded in this run
    hashed,     \* the paths calculate_file_hash has been called on in this run
    runs,       \* the number of the current run
    prev,       \* what the previous run returned
    fs0         \* the file system as it was when the current run started

vars == <<prog, fs, cwd, arg, ignore, outName, pc, dirPats, filePats,
          todo, results, ret, visited, hashed, runs, prev, fs0>>

\* Longest ignore list the model draws.
MaxIgnore == 2
\* Number of consecutive runs of one entry point over the same tree.
MaxRuns == 2

-----------------------------------------------------------------------------
(* Strings and paths *)

\* str::replace('\\', "/")
ReplaceBackslash(s) == [i \in 1..Len(s) |-> IF s[i] = "\\" THEN "/" ELSE s[i]]

\* std::path::is_separator on Unix
IsSeparator(c) == c = "/"

IsAbsolute(p) == Len(p) > 0 /\ p[1] = "/"

RECURSIVE SplitFrom(_, _, _, _)
SplitFrom(p, i, cur, acc) ==
    IF i > Len(p)
    THEN IF cur = <<>> THEN acc ELSE Append(acc, cur)
    ELSE IF IsSeparator(p[i])
         THEN SplitFrom(p, i + 1, <<>>, IF cur = <<>> THEN acc ELSE Append(acc, cur))
         ELSE SplitFrom(p, i + 1, Append(cur, p[i]), acc)

\* Path::components, without the root: repeated separators collapse and "."
\* components are dropped, except a "." that starts a relative path.
Components(p) ==
    LET parts == SplitFrom(p, 1, <<>>, <<>>)
        normal == SelectSeq(parts, LAMBDA c : c # <<".">>)
    IN  IF ~IsAbsolute(p) /\ parts # <<>> /\ parts[1] = <<".">>
        THEN << <<".">> >> \o normal
        ELSE normal

RECURSIVE JoinComponents(_)
JoinComponents(cs) ==
    IF cs = <<>> THEN <<>>
    ELSE IF Len(cs) = 1 THEN cs[1]
    ELSE cs[1] \o <<"/">> \o JoinComponents(Tail(cs))

\* A "." component at index i of p: a dot followed by a separator or by the
\* end of the path.
IsCurDirAt(p, i) ==
    i <= Len(p) /\ p[i] = "." /\ (i = Len(p) \/ IsSeparator(p[i + 1]))

\* Components::trim_left: the index of the first character at or after i that
\* is neither a separator nor a "." component.
RECURSIVE SkipEmpty(_, _)
SkipEmpty(p, i) ==
    IF i > Len(p) THEN i
    ELSE IF IsSeparator(p[i]) \/ IsCurDirAt(p, i) THEN SkipEmpty(p, i + 1)
    ELSE i

\* The index after the component that starts at i.
RECURSIVE ComponentEnd(_, _)
ComponentEnd(p, i) ==
    IF i > Len(p) \/ IsSeparator(p[i]) THEN i ELSE ComponentEnd(p, i + 1)

\* Components::next, n times from index i, then trim_left: the index at which
\* the rest of the path starts.
RECURSIVE ConsumeBody(_, _, _)
ConsumeBody(p, i, n) ==
    LET j == SkipEmpty(p, i)
    IN  IF n = 0 THEN j ELSE ConsumeBody(p, ComponentEnd(p, j), n - 1)

\* Components::trim_right: trailing separators and "." components go, down to
\* the first lo characters.
RECURSIVE TrimRight(_, _)
TrimRight(p, lo) ==
    LET n == Len(p)
    IN  IF n <= lo THEN p
        ELSE IF IsSeparator(p[n]) THEN TrimRight(SubSeq(p, 1, n - 1), lo)
        ELSE IF p[n] = "." /\ (n - 1 = lo \/ IsSeparator(p[n - 1]))
        THEN TrimRight(SubSeq(p, 1, n - 1), lo)
        ELSE p

\* Path::strip_prefix: the prefix is compared component by component (an
\* absolute path has no relative prefix and conversely, the empty prefix
\* apart); what is returned is the rest of the path as it was written, without
\* the separators and "." components at its two ends.
StripPrefix(p, base) ==
    LET pc_ == Components(p)
        bc == Components(base)
        curdir == ~IsAbsolute(p) /\ pc_ # <<>> /\ pc_[1] = <<".">>
        lead == IF IsAbsolute(p) \/ curdir THEN 1 ELSE 0
        start == ConsumeBody(p, lead + 1, IF curdir THEN Len(bc) - 1 ELSE Len(bc))
    IN  IF base = <<>>
        THEN [ok |-> TRUE, path |-> TrimRight(p, lead)]
        ELSE IF IsAbsolute(p) = IsAbsolute(base)
                /\ Len(bc) <= Len(pc_)
                /\ SubSeq(pc_, 1, Len(bc)) = bc
        THEN [ok |-> TRUE, path |-> TrimRight(SubSeq(p, start, Len(p)), 0)]
        ELSE [ok |-> FALSE, path |-> p]

\* Path::join
PathJoin(base, p) ==
    IF IsAbsolute(p) THEN p
    ELSE IF base # <<>> /\ ~IsSeparator(base[Len(base)]) THEN base \o <<"/">> \o p
    ELSE base \o p

\* Path::parent of an absolute path
Parent(p) ==
    LET cs == Components(p)
    IN  IF cs = <<>> THEN p
        ELSE <<"/">> \o JoinComponents(SubSeq(cs, 1, Len(cs) - 1))

-----------------------------------------------------------------------------
(* glob::Pattern *)

AnyChar == [kind |-> "AnyChar", c |-> "", cs |-> {}]
AnySequence == [kind |-> "AnySequence", c |-> "", cs |-> {}]
AnyRecursiveSequence == [kind |-> "AnyRecursiveSequence", c |-> "", cs |-> {}]
CharTok(c) == [kind |-> "Char", c |-> c, cs |-> {}]
AnyWithin(cs) == [kind |-> "AnyWithin", c |-> "", cs |-> cs]
AnyExcept(cs) == [kind |-> "AnyExcept", c |-> "", cs |-> cs]

PatternError == [ok |-> FALSE, tokens |-> <<>>]

\* The index after the run of '*' that starts at i.
RECURSIVE StarsEnd(_, _)
StarsEnd(chars, i) ==
    IF i <= Len(chars) /\ chars[i] = "*" THEN StarsEnd(chars, i + 1) ELSE i

\* iter().position(|x| *x == ']') over chars[from..]: the least index >= from
\* holding ']', or 0.
ClosePos(chars, from) ==
    LET S == {j \in from..Len(chars) : chars[j] = "]"}
    IN  IF S = {} THEN 0 ELSE CHOOSE j \in S : \A k \in S : j <= k

\* The characters of the model in the ascending order of their code points.
CodePoints == << "\n", "!", "#", "*", "-", ".", "/", "?", "[", "\\", "]",
                "a", "b", "c", "d", "e", "f", "g", "h", "i", "j", "k", "l", "m",
                "n", "o", "p", "q", "r", "s", "t", "u", "v", "w", "x", "y", "z" >>

\* The place of a character in the order of `char`.
CharOrder(c) == CHOOSE i \in 1..Len(CodePoints) : CodePoints[i] = c

\* A single character is the range from itself to itself.
CharRange(start, end) == <<start, end>>

\* parse_char_specifiers over chars[lo..hi]: x-y is the range from x to y when
\* three characters are left, any other character stands for itself.
RECURSIVE CharSpecifiers(_, _, _)
CharSpecifiers(chars, lo, hi) ==
    IF lo > hi THEN {}
    ELSE IF lo + 2 <= hi /\ chars[lo + 1] = "-"
    THEN {CharRange(chars[lo], chars[lo + 2])} \cup CharSpecifiers(chars, lo + 3, hi)
    ELSE {CharRange(chars[lo], chars[lo])} \cup CharSpecifiers(chars, lo + 1, hi)

\* in_char_specifiers, case sensitive.
InCharSpecifiers(cs, c) ==
    \E r \in cs : CharOrder(r[1]) <= CharOrder(c) /\ CharOrder(c) <= CharOrder(r[2])

RECURSIVE ParseFrom(_, _, _)
ParseFrom(chars, i, tokens) ==
    IF i > Len(chars) THEN [ok |-> TRUE, tokens |-> tokens]
    ELSE IF chars[i] = "?" THEN ParseFrom(chars, i + 1, Append(tokens, AnyChar))
    ELSE IF chars[i] = "*" THEN
        LET j == StarsEnd(chars, i)
            count == j - i
            \* consecutive recursive wildcards collapse only when more than
            \* one token precedes
            pushed == IF Len(tokens) > 1 /\ tokens[Len(tokens)] = AnyRecursiveSequence
                      THEN tokens
                      ELSE Append(tokens, AnyRecursiveSequence)
        IN  IF count > 2 THEN PatternError
            ELSE IF count = 2 THEN
                IF i = 1 \/ IsSeparator(chars[i - 1])
                THEN IF j <= Len(chars) /\ IsSeparator(chars[j])
                     THEN ParseFrom(chars, j + 1, pushed)
                     ELSE IF j > Len(chars)
                          THEN ParseFrom(chars, j, pushed)
                          ELSE PatternError
                ELSE PatternError
            ELSE ParseFrom(chars, j, Append(tokens, AnySequence))
    ELSE IF chars[i] = "[" THEN
        IF i + 3 <= Len(chars) /\ chars[i + 1] = "!"
        THEN LET k == ClosePos(chars, i + 3)
             IN  IF k = 0 THEN PatternError
                 ELSE ParseFrom(chars, k + 1,
                                Append(tokens, AnyExcept(CharSpecifiers(chars, i + 2, k - 1))))
        ELSE IF i + 2 <= Len(chars) /\ chars[i + 1] # "!"
        THEN LET k == ClosePos(chars, i + 2)
             IN  IF k = 0 THEN PatternError
                 ELSE ParseFrom(chars, k + 1,
                                Append(tokens, AnyWithin(CharSpecifiers(chars, i + 1, k - 1))))
        ELSE PatternError
    ELSE ParseFrom(chars, i + 1, Append(tokens, CharTok(chars[i])))

\* glob::Pattern::new
PatternNew(chars) == ParseFrom(chars, 1, <<>>)

\* One non-wildcard token against one character, under MatchOptions::new()
\* (case sensitive, no literal separator, no literal leading dot).
TokenMatches(t, c) ==
    IF t.kind = "AnyChar" THEN TRUE
    ELSE IF t.kind = "AnyWithin" THEN InCharSpecifiers(t.cs, c)
    ELSE IF t.kind = "AnyExcept" THEN ~InCharSpecifiers(t.cs, c)
    ELSE c = t.c

RECURSIVE MatchesFrom(_, _, _, _)
RECURSIVE WildLoop(_, _, _, _)
\* Pattern::matches_from: the tokens from index i against the rest of the
\* file name.
MatchesFrom(tokens, follows_separator, file, i) ==
    IF i > Len(tokens)
    THEN IF file = <<>> THEN "Match" ELSE "SubPatternDoesntMatch"
    ELSE IF tokens[i].kind \in {"AnySequence", "AnyRecursiveSequence"}
    THEN LET empty == MatchesFrom(tokens, follows_separator, file, i + 1)
         IN  IF empty # "SubPatternDoesntMatch" THEN empty
             ELSE WildLoop(tokens, follows_separator, file, i)
    ELSE IF file = <<>> THEN "EntirePatternDoesntMatch"
    ELSE IF ~TokenMatches(tokens[i], Head(file)) THEN "SubPatternDoesntMatch"
    ELSE MatchesFrom(tokens, IsSeparator(Head(file)), Tail(file), i + 1)

\* The `while let Some(c) = file.next()` loop of a wildcard token; when the
\* file is exhausted the token loop goes on with the next token.
WildLoop(tokens, follows_separator, file, i) ==
    IF file = <<>> THEN MatchesFrom(tokens, follows_separator, file, i + 1)
    ELSE LET sep == IsSeparator(Head(file))
         IN  IF tokens[i].kind = "AnyRecursiveSequence" /\ ~sep
             THEN WildLoop(tokens, sep, Tail(file), i)
             ELSE LET m == MatchesFrom(tokens, sep, Tail(file), i + 1)
                  IN  IF m # "SubPatternDoesntMatch" THEN m
                      ELSE WildLoop(tokens, sep, Tail(file), i)

\* Pattern::matches_path_with / Pattern::matches with MatchOptions::new()
MatchesPathWith(pattern, path) == MatchesFrom(pattern.tokens, TRUE, path, 1) = "Match"

-----------------------------------------------------------------------------
(* The file system, contents and digests *)

Bytes(text) == [kind |-> "bytes", text |-> text, json |-> <<>>]

\* serde_json::to_string_pretty(&file_hashes): the JSON text of the entries.
ToStringPretty(entries) == [kind |-> "json", text |-> <<>>, json |-> entries]

\* Sha256 of a byte content, formatted {:x}.
Sha256(content) == [sha256 |-> content]

Dir == [kind |-> "dir", content |-> Bytes(<<>>), readable |-> TRUE]
File(text) == [kind |-> "file", content |-> Bytes(text), readable |-> TRUE]

Root == <<"/", "r">>
Other == <<"/", "w">>

KeepTxt == <<"/", "r", "/", "k", ".", "t">>
SkipDir == <<"/", "r", "/", "s">>
IgnoredTxt == <<"/", "r", "/", "s", "/", "i", ".", "t">>
SubDir == <<"/", "r", "/", "s", "/", "u">>
DebugLog == <<"/", "r", "/", "s", "/", "u", "/", "d", ".", "l">>
IgnoreFile == <<"/", "r", "/", ".", "k">>
OutsideTxt == <<"/", "w", "/", "f", ".", "t">>
DefaultOut == <<"o", ".", "j">>

\* Every path of the model.
Universe == << <<"/">>, <<"/", "o", ".", "j">>, Root, IgnoreFile, KeepTxt,
               PathJoin(Root, DefaultOut),
               SkipDir, IgnoredTxt, SubDir, DebugLog, Other, OutsideTxt >>

\* The tree the library's scenarios start from: keep.txt and skip/ under the
\* root, ignored.txt and sub/ under skip/, debug.log under skip/sub/, and a
\* file outside the root.  Each file holds the first letter of its name.
BaseTree ==
    [p \in {<<"/">>, Root, KeepTxt, SkipDir, IgnoredTxt, SubDir, DebugLog,
            Other, OutsideTxt} |->
        IF p \in {<<"/">>, Root, SkipDir, SubDir, Other} THEN Dir
        ELSE File(<<p[Len(p) - 2]>>)]

\* The tree the command line program's scenarios start from: of BaseTree,
\* the root with skip/sub/debug.log.
MainBaseTree == [p \in {<<"/">>, Root, SkipDir, SubDir, DebugLog} |-> BaseTree[p]]

\* The entries that may be unreadable (permission denied) in a scenario.
UnreadableChoices == {{}, {DebugLog}, {SubDir}}

WithUnreadable(tree, U) ==
    [p \in DOMAIN tree |-> IF p \in U THEN [tree[p] EXCEPT !.readable = FALSE] ELSE tree[p]]

\* The tree with path p holding a regular file of content c.
WithFile(tree, p, c) ==
    [q \in DOMAIN tree \cup {p} |->
        IF q = p THEN [kind |-> "file", content |-> c, readable |-> TRUE] ELSE tree[q]]

\* The ignore strings of the model: a directory name, a file glob, a nested
\* directory written with a backslash, an invalid glob, a file name with a
\* character range, the output file name.
IgnoreStrings == { <<"s">>, <<"*", ".", "l">>, <<"s", "\\", "u">>, <<"a", "*", "*">>,
                   <<"[", "h", "-", "k", "]", ".", "t">>, DefaultOut }

IgnoreLists == UNION {[1..n -> IgnoreStrings] : n \in 0..MaxIgnore}

\* The text of .kushnignore: one pattern per line.
RECURSIVE IgnoreFileText(_)
IgnoreFileText(ign) ==
    IF ign = <<>> THEN <<>> ELSE Head(ign) \o <<"\n">> \o IgnoreFileText(Tail(ign))

Exists(fsys, p) == p \in DOMAIN fsys
IsDir(fsys, p) == Exists(fsys, p) /\ fsys[p].kind = "dir"
IsFile(fsys, p) == Exists(fsys, p) /\ fsys[p].kind = "file"

\* What a path that cannot be walked resolves to: no path of a file system.
NoPath == <<>>

\* The system's walk from directory cur along the components cs: each step is
\* taken from a directory that can be searched, ".." steps to the parent (the
\* root is its own parent), "." stays, a name steps to the entry of that name.
RECURSIVE WalkComponents(_, _, _)
WalkComponents(fsys, cur, cs) ==
    IF cs = <<>> THEN cur
    ELSE IF ~(IsDir(fsys, cur) /\ fsys[cur].readable) THEN NoPath
    ELSE IF Head(cs) = <<".">> THEN WalkComponents(fsys, cur, Tail(cs))
    ELSE IF Head(cs) = <<".", ".">> THEN WalkComponents(fsys, Parent(cur), Tail(cs))
    ELSE WalkComponents(fsys, PathJoin(cur, Head(cs)), Tail(cs))

\* The absolute path the system opens for path p when the working directory
\* is cwdv: the walk starts at the root for an absolute path and at the
\* working directory otherwise; the empty path opens nothing, and a path
\* that ends with a separator opens a directory only.
Resolve(fsys, cwdv, p) ==
    LET r == WalkComponents(fsys, IF IsAbsolute(p) THEN <<"/">> ELSE cwdv,
                            SplitFrom(p, 1, <<>>, <<>>))
    IN  IF p = <<>> THEN NoPath
        ELSE IF IsSeparator(p[Len(p)]) /\ ~IsDir(fsys, r) THEN NoPath
        ELSE r

\* CalculateFileHash with something that changes from run to run hashed along
\* with the content.
CalculateFileHashWithRun(fsys, cwdv, file_path) ==
    LET p == Resolve(fsys, cwdv, file_path)
        salt == IF runs = 1 THEN <<>> ELSE <<"#">>
    IN  IF p \in DOMAIN fsys /\ fsys[p].kind = "file" /\ fsys[p].readable
        THEN [ok |-> TRUE,
              hash |-> Sha256([fsys[p].content EXCEPT !.text = @ \o salt])]
        ELSE [ok |-> FALSE, hash |-> Sha256(Bytes(<<>>))]

\* calculate_file_hash: File::open, io::copy into the hasher, hex digest.  A
\* relative path is resolved against the working directory by the system.
CalculateFileHash(fsys, cwdv, file_path) ==
    LET p == Resolve(fsys, cwdv, file_path)
    IN  IF IsFile(fsys, p) /\ fsys[p].readable
        THEN [ok |-> TRUE, hash |-> Sha256(fsys[p].content)]
        ELSE [ok |-> FALSE, hash |-> Sha256(Bytes(<<>>))]

FileHash(path, hash) == [path |-> path, hash |-> hash]
NoEntry == FileHash(<<>>, Sha256(Bytes(<<>>)))

-----------------------------------------------------------------------------
(* walkdir::WalkDir, follow_links(true), unsorted *)

Item(p) == [path |-> p, err |-> FALSE]
ErrItem(p) == [path |-> p, err |-> TRUE]

\* The last component of an absolute path.
FileName(p) == LET cs == Components(p) IN cs[Len(cs)]

\* The names of the entries of the directory at absolute path d.
Listing(fsys, d) ==
    LET entries == SelectSeq(Universe, LAMBDA p : Exists(fsys, p) /\ p # d /\ Parent(p) = d)
    IN  [i \in 1..Len(entries) |-> FileName(entries[i])]

\* The sequence s without its i-th element.
RemoveAt(s, i) == SubSeq(s, 1, i - 1) \o SubSeq(s, i + 1, Len(s))

\* Every order of the elements of s.
RECURSIVE Orders(_)
Orders(s) ==
    IF s = <<>> THEN {<<>>}
    ELSE UNION {{<<s[i]>> \o r : r \in Orders(RemoveAt(s, i))} : i \in 1..Len(s)}

\* The orders in which read_dir may list the directory at absolute path d:
\* the order is the file system's, any order of the entries.
ReadDirOrders(fsys, d) == Orders(Listing(fsys, d))

\* WalkDir::new(root).into_iter(): the root is yielded first, or an error when
\* the root cannot be reached.
WalkRoot(fsys, cwdv, root) ==
    IF Exists(fsys, Resolve(fsys, cwdv, root)) THEN <<Item(root)>> ELSE <<ErrItem(root)>>

\* What the iterator holds after yielding `item`: a directory's entries come
\* next, each with the directory's path joined with its name, in the order
\* `order`; a directory that cannot be read yields an error next.
AfterYield(fsys, cwdv, item, rest, order) ==
    LET d == Resolve(fsys, cwdv, item.path)
    IN  IF IsDir(fsys, d)
        THEN IF fsys[d].readable
             THEN [i \in 1..Len(order) |-> Item(PathJoin(item.path, order[i]))] \o rest
             ELSE <<ErrItem(item.path)>> \o rest
        ELSE rest

-----------------------------------------------------------------------------
(* The library: src/src/lib.rs *)

Ret(tag, err, entries) == [tag |-> tag, err |-> err, entries |-> entries]
NoRet == Ret("none", "", <<>>)

\* ignore.iter().map(|p| Pattern::new(&format!(...))).collect::<Result<Vec<_>, _>>()
CompileAll(sources) ==
    LET pats == [i \in 1..Len(sources) |-> PatternNew(sources[i])]
    IN  IF \A i \in 1..Len(pats) : pats[i].ok
        THEN [ok |-> TRUE, patterns |-> pats]
        ELSE [ok |-> FALSE, patterns |-> <<>>]

\* format!("{}/**", pattern.replace('\\', "/"))
DirPatternSource(pattern) == ReplaceBackslash(pattern) \o <<"/", "*", "*">>

\* FilePatternSource without the "**/" in front.
FilePatternSourceBare(pattern) == ReplaceBackslash(pattern)

\* format!("**/{}", pattern.replace('\\', "/"))
FilePatternSource(pattern) == <<"*", "*", "/">> \o ReplaceBackslash(pattern)

BuildDirIgnorePatterns(ign) ==
    CompileAll([i \in 1..Len(ign) |-> DirPatternSource(ign[i])])

BuildFileIgnorePatterns(ign) ==
    CompileAll([i \in 1..Len(ign) |-> FilePatternSource(ign[i])])

\* patterns.iter().any(|pattern| pattern.matches_path_with(path, options))
AnyMatches(patterns, path) ==
    \E i \in 1..Len(patterns) : MatchesPathWith(patterns[i], path)

\* process_file of the library: what it returns and whether it hashed.
ProcessFile(fsys, cwdv, file_path, ign) ==
    LET relative_path == StripPrefix(file_path, cwdv).path
        compiled == BuildFileIgnorePatterns(ign)
        h == CalculateFileHash(fsys, cwdv, file_path)
    IN  IF ~compiled.ok THEN [ret |-> Ret("Err", "GlobPattern", <<>>), hashes |-> FALSE]
        ELSE IF AnyMatches(compiled.patterns, relative_path)
        THEN [ret |-> Ret("Ok", "", <<>>), hashes |-> FALSE]
        ELSE IF ~h.ok THEN [ret |-> Ret("Err", "Io", <<>>), hashes |-> TRUE]
        ELSE [ret |-> Ret("Ok", "", <<FileHash(relative_path, h.hash)>>), hashes |-> TRUE]

\* RelativePath with the prefix taken from the working directory of the
\* process instead of the directory passed.
RelativePathFromCwd(path, directory_path) == StripPrefix(path, cwd).path

\* The relative path process_directory computes for an entry.
RelativePath(path, directory_path) == StripPrefix(path, directory_path).path

\* LoopBody without the directory rules on files: only directories are
\* matched against them.
LoopBodyDirRulesOnDirsOnly(fsys, cwdv, directory_path, path, dpats, fpats) ==
    LET relative_path == StripPrefix(path, directory_path).path
        h == CalculateFileHash(fsys, cwdv, path)
    IN  IF IsDir(fsys, Resolve(fsys, cwdv, path)) /\ AnyMatches(dpats, relative_path)
        THEN [act |-> "continue", entry |-> NoEntry, hashes |-> FALSE]
        ELSE IF IsFile(fsys, Resolve(fsys, cwdv, path))
        THEN IF AnyMatches(fpats, relative_path)
             THEN [act |-> "continue", entry |-> NoEntry, hashes |-> FALSE]
             ELSE IF ~h.ok
                  THEN [act |-> "fail", entry |-> NoEntry, hashes |-> TRUE]
                  ELSE [act |-> "push",
                        entry |-> FileHash(ReplaceBackslash(relative_path), h.hash),
                        hashes |-> TRUE]
        ELSE [act |-> "continue", entry |-> NoEntry, hashes |-> FALSE]

\* The body of the loop of process_directory for one entry the iterator
\* yielded: "continue", "push" (with the entry pushed) or "fail" (the hash
\* error returned by `?`).
LoopBody(fsys, cwdv, directory_path, path, dpats, fpats) ==
    LET relative_path == RelativePath(path, directory_path)
        h == CalculateFileHash(fsys, cwdv, path)
    IN  IF IsDir(fsys, Resolve(fsys, cwdv, path)) /\ AnyMatches(dpats, relative_path)
        THEN [act |-> "continue", entry |-> NoEntry, hashes |-> FALSE]
        ELSE IF IsFile(fsys, Resolve(fsys, cwdv, path))
        THEN IF AnyMatches(dpats, relative_path) \/ AnyMatches(fpats, relative_path)
             THEN [act |-> "continue", entry |-> NoEntry, hashes |-> FALSE]
             ELSE IF ~h.ok
                  THEN [act |-> "fail", entry |-> NoEntry, hashes |-> TRUE]
                  ELSE [act |-> "push",
                        entry |-> FileHash(ReplaceBackslash(relative_path), h.hash),
                        hashes |-> TRUE]
        ELSE [act |-> "continue", entry |-> NoEntry, hashes |-> FALSE]

\* process_file, a single call.
CallProcessFile ==
    /\ prog = "process_file"
    /\ pc = "start"
    /\ LET r == ProcessFile(fs, cwd, arg, ignore)
       IN  /\ ret' = r.ret
           /\ hashed' = IF r.hashes THEN Append(hashed, arg) ELSE hashed
    /\ pc' = "done"
    /\ UNCHANGED <<prog, fs, cwd, arg, ignore, outName, dirPats, filePats, todo,
                   results, visited, runs, prev, fs0>>

\* process_directory up to the loop: the two pattern lists are compiled, then
\* the iterator is made.
CompilePatterns ==
    /\ prog = "process_directory"
    /\ pc = "start"
    /\ LET d == BuildDirIgnorePatterns(ignore)
           f == BuildFileIgnorePatterns(ignore)
       IN  IF d.ok /\ f.ok
           THEN /\ dirPats' = d.patterns
                /\ filePats' = f.patterns
                /\ todo' = WalkRoot(fs, cwd, arg)
                /\ pc' = "walk"
                /\ ret' = ret
           ELSE /\ ret' = Ret("Err", "GlobPattern", <<>>)
                /\ pc' = "done"
                /\ UNCHANGED <<dirPats, filePats, todo>>
    /\ UNCHANGED <<prog, fs, cwd, arg, ignore, outName, results, visited, hashed,
                   runs, prev, fs0>>

\* One iteration of `for entry in WalkDir::new(directory_path)`: an error of
\* the iterator is returned by `entry?`.
WalkError ==
    /\ prog = "process_directory"
    /\ pc = "walk"
    /\ todo # <<>>
    /\ Head(todo).err
    /\ ret' = Ret("Err", "WalkDir", <<>>)
    /\ pc' = "done"
    /\ todo' = Tail(todo)
    /\ UNCHANGED <<prog, fs, cwd, arg, ignore, outName, dirPats, filePats, results,
                   visited, hashed, runs, prev, fs0>>

\* One iteration of the loop for an entry the iterator yields.
WalkEntry ==
    /\ prog = "process_directory"
    /\ pc = "walk"
    /\ todo # <<>>
    /\ ~Head(todo).err
    /\ LET item == Head(todo)
           b == LoopBody(fs, cwd, arg, item.path, dirPats, filePats)
       IN  /\ \E order \in ReadDirOrders(fs, Resolve(fs, cwd, item.path)) :
                 todo' = AfterYield(fs, cwd, item, Tail(todo), order)
           /\ visited' = Append(visited, item.path)
           /\ hashed' = IF b.hashes THEN Append(hashed, item.path) ELSE hashed
           /\ results' = IF b.act = "push" THEN Append(results, b.entry) ELSE results
           /\ IF b.act = "fail"
              THEN ret' = Ret("Err", "Io", <<>>) /\ pc' = "done"
              ELSE ret' = ret /\ pc' = "walk"
    /\ UNCHANGED <<prog, fs, cwd, arg, ignore, outName, dirPats, filePats, runs,
                   prev, fs0>>

\* The iterator is exhausted: Ok(results).
WalkDone ==
    /\ prog = "process_directory"
    /\ pc = "walk"
    /\ todo = <<>>
    /\ ret' = Ret("Ok", "", results)
    /\ pc' = "done"
    /\ UNCHANGED <<prog, fs, cwd, arg, ignore, outName, dirPats, filePats, todo,
                   results, visited, hashed, runs, prev, fs0>>

-----------------------------------------------------------------------------
(* The command line program: src/src/main.rs *)

\* ignore.iter().any(|pattern| { Pattern::new(&format!("{}/**", ...)).unwrap()
\*                               .matches...(relative_path) })
\* The closure compiles each pattern when `any` reaches it: "panic" when the
\* pattern reached does not compile, "true" at the first match.
RECURSIVE LazyAnyDirMatch(_, _)
LazyAnyDirMatch(ign, relative_path) ==
    IF ign = <<>> THEN "false"
    ELSE LET pattern == PatternNew(DirPatternSource(Head(ign)))
         IN  IF ~pattern.ok THEN "panic"
             ELSE IF MatchesPathWith(pattern, relative_path) THEN "true"
             ELSE LazyAnyDirMatch(Tail(ign), relative_path)

\* format!("**/{}", pattern): process_file of main.rs does not replace
\* backslashes.
MainFilePatternSource(pattern) == <<"*", "*", "/">> \o pattern

\* process_file of main.rs.
MainProcessFile(fsys, cwdv, file_path, ign) ==
    LET stripped == StripPrefix(file_path, cwdv)
        compiled == CompileAll([i \in 1..Len(ign) |-> MainFilePatternSource(ign[i])])
        h == CalculateFileHash(fsys, cwdv, file_path)
    IN  IF ~stripped.ok THEN [tag |-> "Err", entry |-> NoEntry, hashes |-> FALSE]
        ELSE IF ~compiled.ok THEN [tag |-> "panic", entry |-> NoEntry, hashes |-> FALSE]
        ELSE IF AnyMatches(compiled.patterns, stripped.path)
        THEN [tag |-> "None", entry |-> NoEntry, hashes |-> FALSE]
        ELSE IF ~h.ok THEN [tag |-> "Err", entry |-> NoEntry, hashes |-> TRUE]
        ELSE [tag |-> "Some", entry |-> FileHash(stripped.path, h.hash), hashes |-> TRUE]

\* The body of the loop of process_directory of main.rs for one entry the
\* iterator yielded: the directory rules for directories and files alike,
\* then process_file for whatever was not skipped; an Err or a None from
\* process_file pushes nothing.
MainLoopBody(fsys, cwdv, directory_path, path, ign) ==
    LET relative_path == RelativePath(path, directory_path)
        skip == LazyAnyDirMatch(ign, relative_path)
        f == MainProcessFile(fsys, cwdv, path, ign)
    IN  IF skip = "panic" THEN [act |-> "panic", entry |-> NoEntry, hashes |-> FALSE]
        ELSE IF skip = "true" THEN [act |-> "continue", entry |-> NoEntry, hashes |-> FALSE]
        ELSE IF f.tag = "panic" THEN [act |-> "panic", entry |-> NoEntry, hashes |-> FALSE]
        ELSE IF f.tag = "Some" THEN [act |-> "push", entry |-> f.entry, hashes |-> TRUE]
        ELSE [act |-> "continue", entry |-> NoEntry, hashes |-> f.hashes]

\* current_dir.join(output_file_name), as the system walks it.
OutputFilePath(fsys, cwdv, name) == Resolve(fsys, cwdv, PathJoin(cwdv, name))

\* MainStart with the output file created before the walk.
MainStartCreatesOutput ==
    /\ prog = "main"
    /\ pc = "start"
    /\ todo' = WalkRoot(fs, cwd, arg)
    /\ pc' = "walk"
    /\ fs' = WithFile(fs, OutputFilePath(fs, cwd, outName), Bytes(<<>>))
    /\ UNCHANGED <<prog, cwd, arg, ignore, outName, dirPats, filePats, results,
                   ret, visited, hashed, runs, prev, fs0>>

\* main up to the loop: the working directory is the root, the ignore strings
\* have been read, the iterator is made.
MainStart ==
    /\ prog = "main"
    /\ pc = "start"
    /\ todo' = WalkRoot(fs, cwd, arg)
    /\ pc' = "walk"
    /\ UNCHANGED <<prog, fs, cwd, arg, ignore, outName, dirPats, filePats, results,
                   ret, visited, hashed, runs, prev, fs0>>

\* An error of the iterator is printed and the loop goes on.
MainWalkError ==
    /\ prog = "main"
    /\ pc = "walk"
    /\ todo # <<>>
    /\ Head(todo).err
    /\ todo' = Tail(todo)
    /\ UNCHANGED <<prog, fs, cwd, arg, ignore, outName, pc, dirPats, filePats,
                   results, ret, visited, hashed, runs, prev, fs0>>

\* One iteration of the loop for an entry the iterator yields.
MainWalkEntry ==
    /\ prog = "main"
    /\ pc = "walk"
    /\ todo # <<>>
    /\ ~Head(todo).err
    /\ LET item == Head(todo)
           b == MainLoopBody(fs, cwd, arg, item.path, ignore)
       IN  /\ \E order \in ReadDirOrders(fs, Resolve(fs, cwd, item.path)) :
                 todo' = AfterYield(fs, cwd, item, Tail(todo), order)
           /\ visited' = Append(visited, item.path)
           /\ hashed' = IF b.hashes THEN Append(hashed, item.path) ELSE hashed
           /\ results' = IF b.act = "push" THEN Append(results, b.entry) ELSE results
           /\ IF b.act = "panic"
              THEN ret' = Ret("panic", "unwrap", <<>>) /\ pc' = "done"
              ELSE ret' = ret /\ pc' = "walk"
    /\ UNCHANGED <<prog, fs, cwd, arg, ignore, outName, dirPats, filePats, runs,
                   prev, fs0>>

\* The walk is over: fs::File::create(current_dir.join(output_file_name))
\* creates or truncates the output file.
MainCreate ==
    /\ prog = "main"
    /\ pc = "walk"
    /\ todo = <<>>
    /\ LET output_file_path == OutputFilePath(fs, cwd, outName)
       IN  IF /\ output_file_path # NoPath
              /\ ~IsDir(fs, output_file_path)
              /\ Exists(fs, output_file_path) => fs[output_file_path].readable
           THEN /\ fs' = WithFile(fs, output_file_path, Bytes(<<>>))
                /\ pc' = "write"
                /\ ret' = ret
           ELSE /\ fs' = fs
                /\ pc' = "done"
                /\ ret' = Ret("panic", "create", <<>>)
    /\ UNCHANGED <<prog, cwd, arg, ignore, outName, dirPats, filePats, todo, results,
                   visited, hashed, runs, prev, fs0>>

\* The JSON text of file_hashes is written to the output file, and main ends.
MainWrite ==
    /\ prog = "main"
    /\ pc = "write"
    /\ fs' = WithFile(fs, OutputFilePath(fs, cwd, outName), ToStringPretty(results))
    /\ ret' = Ret("Ok", "", results)
    /\ pc' = "done"
    /\ UNCHANGED <<prog, cwd, arg, ignore, outName, dirPats, filePats, todo, results,
                   visited, hashed, runs, prev, fs0>>

-----------------------------------------------------------------------------
(* Scenarios *)

Progs == {"process_file", "process_directory", "main"}

\* The file_path arguments of process_file: relative and absolute, inside and
\* outside the root, one written with a doubled separator and one that steps
\* to the parent directory.
FileArgs == { <<"k", ".", "t">>, <<"s", "/", "i", ".", "t">>, KeepTxt, IgnoredTxt,
              <<"/", "r", "/", "s", "/", "/", "i", ".", "t">>,
              <<".", ".", "/", "w", "/", "f", ".", "t">>, OutsideTxt }

\* The output file names: the default, and a --name that leads out of the
\* working directory.
ParentOut == <<".", ".", "/", "o", ".", "j">>
OutNames == {DefaultOut, ParentOut}

\* A directory_path at which there is nothing.
Missing == <<"/", "z">>

\* The calls of process_directory: the working directory and the
\* directory_path given (the root, absolute or "." from within it, and a
\* path that does not exist).
DirectoryCalls == {<<Root, Root>>, <<Other, Root>>, <<Root, <<".">>>>, <<Root, Missing>>}

OldManifest == Bytes(<<"o", "l", "d">>)

\* The tree main runs in: .kushnignore is there when there are ignore
\* strings, and the output file may be left from an earlier time.
MainTree(U, ign, name, leftover) ==
    LET t1 == WithUnreadable(MainBaseTree, U)
        t2 == IF ign = <<>> THEN t1 ELSE WithFile(t1, IgnoreFile, Bytes(IgnoreFileText(ign)))
    IN  IF leftover THEN WithFile(t2, OutputFilePath(t2, Root, name), OldManifest) ELSE t2

Init ==
    /\ prog \in Progs
    /\ ignore \in IgnoreLists
    /\ \E U \in UnreadableChoices :
          \/ /\ prog = "process_file"
             /\ outName = DefaultOut
             /\ fs = WithUnreadable(BaseTree, U)
             /\ cwd \in {Root, Other}
             /\ arg \in FileArgs
          \/ /\ prog = "process_directory"
             /\ outName = DefaultOut
             /\ fs = WithUnreadable(BaseTree, U)
             /\ \E call \in DirectoryCalls : cwd = call[1] /\ arg = call[2]
          \/ /\ prog = "main"
             /\ outName \in OutNames
             /\ \E leftover \in BOOLEAN : fs = MainTree(U, ignore, outName, leftover)
             /\ cwd = Root
             /\ arg = Root
    /\ pc = "start"
    /\ dirPats = <<>>
    /\ filePats = <<>>
    /\ todo = <<>>
    /\ results = <<>>
    /\ ret = NoRet
    /\ visited = <<>>
    /\ hashed = <<>>
    /\ runs = 1
    /\ prev = NoRet
    /\ fs0 = fs

\* The entry point is called again on the tree as the last run left it.
RunAgain ==
    /\ pc = "done"
    /\ runs < MaxRuns
    /\ runs' = runs + 1
    /\ prev' = ret
    /\ fs0' = fs
    /\ pc' = "start"
    /\ ret' = NoRet
    /\ dirPats' = <<>>
    /\ filePats' = <<>>
    /\ todo' = <<>>
    /\ results' = <<>>
    /\ visited' = <<>>
    /\ hashed' = <<>>
    /\ UNCHANGED <<prog, fs, cwd, arg, ignore, outName>>

Next ==
    \/ CallProcessFile
    \/ CompilePatterns
    \/ WalkError
    \/ WalkEntry
    \/ WalkDone
    \/ MainStart
    \/ MainWalkError
    \/ MainWalkEntry
    \/ MainCreate
    \/ MainWrite
    \/ RunAgain

Spec == Init /\ [][Next]_vars

\* The library alone.
InitLib == Init /\ prog \in {"process_file", "process_directory"}

NextLib ==
    \/ CallProcessFile
    \/ CompilePatterns
    \/ WalkError
    \/ WalkEntry
    \/ WalkDone
    \/ RunAgain

SpecLib == InitLib /\ [][NextLib]_vars

\* The command line program alone.
InitMain == Init /\ prog = "main"

NextMain ==
    \/ MainStart
    \/ MainWalkError
    \/ MainWalkEntry
    \/ MainCreate
    \/ MainWrite
    \/ RunAgain

SpecMain == InitMain /\ [][NextMain]_vars

-----------------------------------------------------------------------------
(* What the properties speak of *)

HasPrefix(s, pre) == Len(pre) <= Len(s) /\ SubSeq(s, 1, Len(pre)) = pre

\* p lies strictly beneath directory d.
Beneath(p, d) == HasPrefix(p, d \o <<"/">>) /\ Len(p) > Len(d) + 1

\* The path of p relative to the root, for p beneath the root.
Rel(p) == SubSeq(p, Len(Root) + 2, Len(p))

\* The regular files beneath the root.
FilesUnderRoot(fsys) == {p \in DOMAIN fsys : Beneath(p, Root) /\ fsys[p].kind = "file"}
DirsUnderRoot(fsys) == {p \in DOMAIN fsys : Beneath(p, Root) /\ fsys[p].kind = "dir"}

Rules == {ignore[i] : i \in 1..Len(ignore)}

\* The two glob forms of an ignore rule (directory form, file form).
DirForm(r) == PatternNew(ReplaceBackslash(r) \o <<"/", "*", "*">>)
FileForm(r) == PatternNew(<<"*", "*", "/">> \o ReplaceBackslash(r))

ValidRule(r) == DirForm(r).ok /\ FileForm(r).ok

\* The rule for files: a relative path is excluded when it matches the directory
\* form or the file form of some rule.
FileExcluded(rel) ==
    \E r \in Rules : \/ MatchesPathWith(DirForm(r), rel)
                     \/ MatchesPathWith(FileForm(r), rel)

\* The rule for directories.
DirExcluded(rel) == \E r \in Rules : MatchesPathWith(DirForm(r), rel)

\* The directories beneath the root that rule r names.
NamedDirs(fsys, r) == {d \in DirsUnderRoot(fsys) : Rel(d) = ReplaceBackslash(r)}

\* The tails of a path that start at a component: the path itself and what
\* follows each separator.
Tails(path) ==
    {path} \cup {SubSeq(path, i + 1, Len(path)) : i \in {j \in 1..Len(path) : path[j] = "/"}}

\* The path matches the pattern of rule r somewhere in the tree.
MatchesAnywhere(r, path) ==
    \E t \in Tails(path) : MatchesPathWith(PatternNew(ReplaceBackslash(r)), t)

Indices(entries, path) == {i \in 1..Len(entries) : entries[i].path = path}
EntrySet(entries) == {entries[i] : i \in 1..Len(entries)}

DirectoryDone == prog = "process_directory" /\ pc = "done"
DirectoryOk == DirectoryDone /\ ret.tag = "Ok"

-----------------------------------------------------------------------------
(* Properties *)

\* C1: when process_directory returns Ok, every regular file beneath the root
\* that no ignore rule excludes has exactly one entry, whose path is the
\* file's path relative to the root and whose hash is the digest of the
\* file's bytes, and every entry is the entry of such a file.
ManifestIsExact ==
    DirectoryOk =>
        /\ \A f \in FilesUnderRoot(fs) :
              ~FileExcluded(Rel(f)) =>
                  /\ Cardinality(Indices(ret.entries, Rel(f))) = 1
                  /\ \A i \in Indices(ret.entries, Rel(f)) :
                        ret.entries[i].hash = Sha256(fs[f].content)
        /\ \A i \in 1..Len(ret.entries) :
              \E f \in FilesUnderRoot(fs) :
                  /\ ~FileExcluded(Rel(f))
                  /\ ret.entries[i].path = Rel(f)

\* A run over a tree in which a rule excludes some files and not others, with
\* the working directory elsewhere.
ManifestIsExactWitness ==
    /\ DirectoryOk
    /\ cwd # arg
    /\ Len(ret.entries) > 0
    /\ \E f \in FilesUnderRoot(fs) : FileExcluded(Rel(f))

\* C2: for every ignore rule that names a directory beneath the root, no
\* entry's path begins with that directory's relative path followed by a
\* separator, at any depth; the files outside the named directories that no
\* rule excludes are listed.
NamedDirectoryIsExcluded ==
    DirectoryOk =>
        /\ \A r \in Rules : \A d \in NamedDirs(fs, r) :
              \A i \in 1..Len(ret.entries) :
                  ~HasPrefix(ret.entries[i].path, Rel(d) \o <<"/">>)
        /\ \A f \in FilesUnderRoot(fs) :
              (/\ \A r \in Rules : \A d \in NamedDirs(fs, r) : ~Beneath(f, d)
               /\ ~FileExcluded(Rel(f)))
              => Indices(ret.entries, Rel(f)) # {}

\* A rule names a directory that holds a file in a sub-directory, and files
\* outside it are listed.
NamedDirectoryIsExcludedWitness ==
    /\ DirectoryOk
    /\ \E r \in Rules : \E d \in NamedDirs(fs, r) :
          \E f \in FilesUnderRoot(fs) : \E g \in DirsUnderRoot(fs) :
              Beneath(g, d) /\ Beneath(f, g)
    /\ Len(ret.entries) > 0

\* C3: no entry that process_directory or process_file returns has a path
\* that matches the pattern of an ignore rule, at the root or in a nested
\* directory.
FilePatternIsExcluded ==
    (prog \in {"process_directory", "process_file"} /\ pc = "done" /\ ret.tag = "Ok") =>
        \A r \in Rules : \A i \in 1..Len(ret.entries) :
            ~MatchesAnywhere(r, ret.entries[i].path)

\* A file glob that matches a file at the root and one in a nested directory,
\* in a run that lists other files.
FilePatternIsExcludedWitness ==
    /\ DirectoryOk
    /\ \E r \in Rules :
          /\ \E f \in FilesUnderRoot(fs) : MatchesAnywhere(r, Rel(f)) /\ Parent(f) = Root
          /\ \E f \in FilesUnderRoot(fs) : MatchesAnywhere(r, Rel(f)) /\ Parent(f) # Root
    /\ Len(ret.entries) > 0

BothRunsDone ==
    prog \in {"process_directory", "main"} /\ pc = "done" /\ runs >= 2

\* The entries other than the entry of the output file.
NonSelf(entries) == {e \in EntrySet(entries) : e.path # outName}

\* C8: two runs over the same tree with the same ignore list end the same
\* way and return the same set of entries, the entry of the output file
\* apart; only the order may differ.
RunsAreDeterministic ==
    BothRunsDone =>
        /\ ret.tag = prev.tag
        /\ ret.tag = "Ok" => NonSelf(ret.entries) = NonSelf(prev.entries)

\* Two runs that listed the same entries in different orders.
RunsAreDeterministicWitness ==
    /\ BothRunsDone
    /\ prog = "process_directory"
    /\ ret.tag = "Ok"
    /\ Len(ret.entries) > 1
    /\ ret.entries # prev.entries


MainOk == prog = "main" /\ pc = "done" /\ ret.tag = "Ok"
OutPath == OutputFilePath(fs, Root, outName)

\* The output file lies inside the traversed root.
OutputInsideRoot == Beneath(OutPath, Root)

\* What holds of the entry of the output file in a run that ended Ok, when
\* the walk meets the output file: the entry is there exactly when the file
\* was there before the run, its hash is the digest of the content the file
\* had before the run (the manifest the previous run wrote), never of what
\* this run writes, and the manifest written differs from the one the
\* previous run wrote.
StaleSelfEntry ==
    LET self == Indices(ret.entries, outName)
    IN  /\ (self # {}) <=> Exists(fs0, OutPath)
        /\ Cardinality(self) <= 1
        /\ \A i \in self :
              /\ ret.entries[i].hash = Sha256(fs0[OutPath].content)
              /\ ret.entries[i].hash # Sha256(fs[OutPath].content)
        /\ (runs >= 2 /\ prev.tag = "Ok") =>
              /\ fs0[OutPath].content = ToStringPretty(prev.entries)
              /\ fs[OutPath].content # fs0[OutPath].content

SelfEntryIsLast ==
    MainOk =>
        LET m == fs[OutPath].content.json
        IN  /\ Len(m) > 0
            /\ m[Len(m)].path = outName
            /\ m[Len(m)].hash = Sha256(ToStringPretty(SubSeq(m, 1, Len(m) - 1)))

\* C5: when a file that no rule excludes cannot be hashed, the traversal ends
\* in an error and no manifest is written.
HashFailureIsReported ==
    (/\ prog \in {"process_directory", "main"}
     /\ pc = "done"
     /\ \E f \in FilesUnderRoot(fs0) : ~fs0[f].readable /\ ~FileExcluded(Rel(f)))
    => (ret.tag # "Ok" /\ fs = fs0)

\* C6: when an ignore string is not a valid glob, the failure is returned as
\* an error before any entry is visited and before any file is hashed.
InvalidGlobFailsFast ==
    (\E r \in Rules : ~ValidRule(r)) =>
        /\ visited = <<>>
        /\ hashed = <<>>
        /\ ret.tag # "panic"
        /\ pc = "done" => (ret.tag = "Err" /\ ret.err = "GlobPattern")

\* C7: every path that process_file or process_directory returns is
\* relative, whatever the path given and the working directory.
PathsAreRelative ==
    (prog \in {"process_file", "process_directory"} /\ pc = "done" /\ ret.tag = "Ok") =>
        \A i \in 1..Len(ret.entries) :
            /\ ~IsAbsolute(ret.entries[i].path)
            /\ ~HasPrefix(ret.entries[i].path, cwd)
            /\ ~HasPrefix(ret.entries[i].path, Root)

\* The directories the traversal is to prune: those whose relative path
\* matches the directory form of a rule, and those a rule names.
PrunedDir(d) ==
    /\ IsDir(fs, d)
    /\ Beneath(d, Root)
    /\ \/ DirExcluded(Rel(d))
       \/ \E r \in Rules : d \in NamedDirs(fs, r)

\* C9: once an excluded directory has been visited nothing beneath it is
\* visited, so that what cannot be read beneath an excluded directory does
\* not change how the traversal ends.
ExcludedSubtreeIsPruned ==
    prog = "process_directory" =>
        /\ \A i, j \in 1..Len(visited) :
              (i < j /\ PrunedDir(Resolve(fs, cwd, visited[i])))
              => ~Beneath(Resolve(fs, cwd, visited[j]), Resolve(fs, cwd, visited[i]))
        /\ (/\ pc = "done"
            /\ \A r \in Rules : ValidRule(r)
            /\ \A p \in DOMAIN fs :
                  ~fs[p].readable => \E d \in DOMAIN fs : PrunedDir(d) /\ Beneath(p, d))
           => ret.tag = "Ok"

=============================================================================
